---- MODULE Spec2Model ----
(***************************************************************************)
(* Dynamic FBA right-hand sides of part2_community_dfba.ipynb:             *)
(* sc_dfba, ec_dfba and community_dfba, evaluated statement by statement   *)
(* on the two cobra models sc_model and ec_model.                          *)
(*                                                                         *)
(* Real numbers are exact rationals <<numerator, denominator>> in lowest   *)
(* terms with a positive denominator.  The FBA solver is an external       *)
(* collaborator: Optimize lets it answer with any status and any flux      *)
(* vector that respects the lower bounds it is given.                      *)
(***************************************************************************)
EXTENDS Integers, Sequences, FiniteSets, TLC

VARIABLES pc, fn, cur, x, xdot, bounds, ctx, sol, seen, pre, first, oracle,
          arg, trace

vars == <<pc, fn, cur, x, xdot, bounds, ctx, sol, seen, pre, first, oracle,
          arg, trace>>

(***************************************************************************)
(* Rational arithmetic                                                     *)
(***************************************************************************)
Abs(n) == IF n < 0 THEN -n ELSE n

RECURSIVE GCD(_, _)
GCD(a, b) == IF b = 0 THEN a ELSE GCD(b, a % b)

Norm(n, d) ==
    LET s == IF d < 0 THEN -1 ELSE 1
        g == GCD(Abs(n), Abs(d))
    IN  <<(s * n) \div g, (s * d) \div g>>

Rat(n, d) == Norm(n, d)
R(n) == <<n, 1>>
Zero == <<0, 1>>
RNeg(a) == <<-a[1], a[2]>>
RAdd(a, b) == Norm(a[1] * b[2] + b[1] * a[2], a[2] * b[2])
RSub(a, b) == RAdd(a, RNeg(b))
RMul(a, b) == Norm(a[1] * b[1], a[2] * b[2])
RDiv(a, b) == Norm(a[1] * b[2], a[2] * b[1])
RPos(a) == a[1] > 0
RLeq(a, b) == a[1] * b[2] <= b[1] * a[2]
RLess(a, b) == a[1] * b[2] < b[1] * a[2]

(***************************************************************************)
(* Kinetic parameters and conversion factors                               *)
(***************************************************************************)
V_max_glc == 10
K_m_glc == Rat(1, 100)
V_max_o2 == 20
K_m_o2 == Rat(1, 10)
kLa_o2 == 10
V_max_nh4 == 5
V_max_eth == 10
K_m_eth == Rat(1, 10)
O2_sat == 10
M_glc == Rat(18, 100)
M_o2 == 32
M_etoh == Rat(46, 1000)

(***************************************************************************)
(* Models, reactions, state vector                                         *)
(***************************************************************************)
Models == {"sc_model", "ec_model"}
Functions == {"sc_dfba", "ec_dfba", "community_dfba"}
Exchanges == {"EX_glc__D_e", "EX_o2_e", "EX_nh4_e", "EX_etoh_e"}
Slots == 0 .. 4

\* The bounds the SBML files give the exchange reactions (state independent).
NominalBounds ==
    [m \in Models |->
        IF m = "sc_model"
        THEN [r \in Exchanges |->
                CASE r = "EX_glc__D_e" -> R(-10)
                  [] r = "EX_o2_e"     -> R(-2)
                  [] r = "EX_nh4_e"    -> R(-1000)
                  [] OTHER             -> Zero]
        ELSE [r \in Exchanges |->
                CASE r = "EX_glc__D_e" -> R(-10)
                  [] r = "EX_o2_e"     -> R(-1000)
                  [] r = "EX_nh4_e"    -> R(-1000)
                  [] OTHER             -> Zero]]

\* Concentration grid of the inputs: -5, 0, 5, ..., 5 * MaxLevel (a negative
\* value is what the integrator may transiently produce).
MaxLevel == 2
Concentrations == {R(5 * l) : l \in (-1) .. MaxLevel}
Biomasses == {Zero, Rat(1, 100)}

StateVectors ==
    {[i \in Slots |->
        CASE i = 0 -> b0 [] i = 1 -> b1 [] i = 2 -> g [] i = 3 -> o [] OTHER -> e] :
        b0 \in Biomasses, b1 \in Biomasses,
        g \in Concentrations, o \in Concentrations, e \in Concentrations}

ZeroVector == [i \in Slots |-> Zero]

Vector(b0, b1, g, o, e) ==
    [i \in Slots |->
        CASE i = 0 -> b0 [] i = 1 -> b1 [] i = 2 -> g [] i = 3 -> o [] OTHER -> e]

\* The initial conditions x0 of the three simulations, and two states of a
\* later phase (glucose exhausted, ethanol present; oxygen exhausted).
PureVectors ==
    {Vector(Rat(1, 100), Zero, R(10), R(10), Zero),
     Vector(Zero, Zero, R(10), R(10), Zero),
     Vector(Rat(1, 100), Rat(1, 100), R(10), R(10), Zero),
     Vector(Rat(1, 100), Rat(1, 100), Zero, R(5), R(5)),
     Vector(Rat(1, 100), Rat(1, 100), R(5), Zero, R(5))}

(***************************************************************************)
(* Solver solutions                                                        *)
(***************************************************************************)
BiomassId(m) ==
    IF m = "sc_model" THEN "BIOMASS_SC5_notrace" ELSE "BIOMASS_Ec_iJO1366_core_53p95M"

FluxIds(m) == {BiomassId(m), "EX_glc__D_e", "EX_o2_e", "EX_etoh_e"}

Flux(m, bio, glc, o2, etoh) ==
    [r \in FluxIds(m) |->
        CASE r = "EX_glc__D_e" -> glc
          [] r = "EX_o2_e"     -> o2
          [] r = "EX_etoh_e"   -> etoh
          [] OTHER             -> bio]

ZeroFlux(m) == Flux(m, Zero, Zero, Zero, Zero)

\* Flux vectors the solver may report (growth, glucose, oxygen, ethanol).
GrowthFluxes(m) ==
    IF m = "sc_model"
    THEN {Flux(m, Rat(1, 4), R(-5), R(-2), R(8)),
          Flux(m, Rat(1, 10), R(-5), Zero, R(9))}
    ELSE {Flux(m, Rat(1, 2), R(-10), R(-15), Zero),
          Flux(m, Rat(1, 20), Zero, Zero, R(-1))}

FluxChoices(m) == GrowthFluxes(m) \cup {ZeroFlux(m)}

\* A solution of the linear program keeps every flux above its lower bound.
Admissible(f, lb) ==
    \A r \in DOMAIN f \cap Exchanges : RLeq(lb[r], f[r])

NoSolution(m) == [status |-> "none", fluxes |-> ZeroFlux(m)]

\* What one optimize() call may do with lower bounds lb: return a solution
\* (optimal with a flux vector within the bounds; infeasible or unbounded with
\* whatever values the solver left in the flux vector) or raise.
SolverAnswers(m, lb) ==
    {[status |-> "optimal", fluxes |-> f] :
        f \in {g \in FluxChoices(m) : Admissible(g, lb)}}
    \cup {[status |-> s, fluxes |-> f] :
            s \in {"infeasible", "unbounded"}, f \in GrowthFluxes(m)}
    \cup {[status |-> "raised", fluxes |-> ZeroFlux(m)]}

(***************************************************************************)
(* Kinetic Constraint Mapper and oxygen transfer                           *)
(***************************************************************************)
\* Variant: the rate law without the `if c > 0 else 0.0` clamp.
MichaelisMentenUnclamped(V_max, K_m, c) ==
    RDiv(RMul(RNeg(V_max), c), RAdd(K_m, c))

\* Variant: first-order uptake, - V_max * c / K_m, which does not saturate.
MichaelisMentenLinear(V_max, K_m, c) ==
    IF RPos(c) THEN RDiv(RMul(RNeg(V_max), c), K_m) ELSE Zero

\* - V_max * c / (K_m + c) if c > 0 else 0.0
MichaelisMenten(V_max, K_m, c) ==
    IF RPos(c) THEN RDiv(RMul(RNeg(V_max), c), RAdd(K_m, c)) ELSE Zero

\* kLa_o2 * (10.0 - x[3])
OxygenTransfer(v) == RMul(R(kLa_o2), RSub(R(O2_sat), v[3]))

\* xdot = 0*x ; xdot[3] = kLa_o2 * (10.0 - x[3])
InitialDerivative(v) ==
    [[i \in Slots |-> RMul(Zero, v[i])] EXCEPT ![3] = OxygenTransfer(v)]

(***************************************************************************)
(* The bound assignments of each `with` block, in program order            *)
(***************************************************************************)
sc_dfba_bounds(v) ==
    << <<"EX_glc__D_e", MichaelisMenten(R(V_max_glc), K_m_glc, v[2])>>,
       <<"EX_o2_e", MichaelisMenten(R(V_max_o2), K_m_o2, v[3])>>,
       <<"EX_nh4_e", RNeg(R(V_max_nh4))>> >>

ec_dfba_bounds(v) ==
    << <<"EX_glc__D_e", Zero>>,
       <<"EX_o2_e", Zero>>,
       <<"EX_nh4_e", Zero>>,
       <<"EX_etoh_e", MichaelisMenten(R(V_max_eth), K_m_eth, v[4])>> >>

\* community_dfba sets no bound in either block.
community_dfba_bounds(m, v) == << >>

Assignments(f, m, v) ==
    CASE f = "sc_dfba" -> sc_dfba_bounds(v)
      [] f = "ec_dfba" -> ec_dfba_bounds(v)
      [] OTHER         -> community_dfba_bounds(m, v)

(***************************************************************************)
(* cobra's model context: a bound set inside `with model:` is recorded in  *)
(* the innermost history frame and undone, last first, when the block is   *)
(* left, normally or by an exception.                                      *)
(***************************************************************************)
RECURSIVE SetAll(_, _)
SetAll(as, lb) ==
    IF as = << >> THEN lb
    ELSE SetAll(Tail(as), [lb EXCEPT ![Head(as)[1]] = Head(as)[2]])

\* Variant: assignments that are not entered into the history frame.
RecordNothing(as, lb, frame) == frame

RECURSIVE Record(_, _, _)
Record(as, lb, frame) ==
    IF as = << >> THEN frame
    ELSE Record(Tail(as), [lb EXCEPT ![Head(as)[1]] = Head(as)[2]],
                Append(frame, <<Head(as)[1], lb[Head(as)[1]]>>))

RECURSIVE Undo(_, _)
Undo(frame, lb) ==
    IF frame = << >> THEN lb
    ELSE Undo(SubSeq(frame, 1, Len(frame) - 1),
              [lb EXCEPT ![frame[Len(frame)][1]] = frame[Len(frame)][2]])

\* Variant: a block exit that restores nothing.
ContextExitKeep(frame, lb, raising) == lb

\* Variant: a best-effort release, skipped when an exception passes through.
ContextExitBestEffort(frame, lb, raising) ==
    IF raising THEN lb ELSE Undo(frame, lb)

\* Model.__exit__: runs on every way out of the block.
ContextExit(frame, lb, raising) == Undo(frame, lb)

(***************************************************************************)
(* Derivative extraction                                                   *)
(***************************************************************************)
Add(xd, i, a) == [xd EXCEPT ![i] = RAdd(@, a)]

\* Variant: the fluxes are used whatever the solver status.
sc_dfba_extract_any(v, s, xd) ==
    LET d0 == Add(xd, 0, RMul(s.fluxes["BIOMASS_SC5_notrace"], v[0]))
        d2 == Add(d0, 2, RMul(RMul(s.fluxes["EX_glc__D_e"], M_glc), v[0]))
        d3 == Add(d2, 3, RMul(RMul(s.fluxes["EX_o2_e"], R(M_o2)), v[0]))
    IN  Add(d3, 4, RMul(RMul(s.fluxes["EX_etoh_e"], M_etoh), v[0]))

\* Variant: the fluxes are used unless the status is "infeasible".
sc_dfba_extract_feasible(v, s, xd) ==
    IF s.status /= "infeasible" THEN sc_dfba_extract_any(v, s, xd) ELSE xd

sc_dfba_extract(v, s, xd) ==
    IF s.status = "optimal"
    THEN LET d0 == Add(xd, 0, RMul(s.fluxes["BIOMASS_SC5_notrace"], v[0]))
             d2 == Add(d0, 2, RMul(RMul(s.fluxes["EX_glc__D_e"], M_glc), v[0]))
             d3 == Add(d2, 3, RMul(RMul(s.fluxes["EX_o2_e"], R(M_o2)), v[0]))
         IN  Add(d3, 4, RMul(RMul(s.fluxes["EX_etoh_e"], M_etoh), v[0]))
    ELSE xd

\* Variant: the E. coli growth term is added, into slot 0.
ec_dfba_extract_slot0(v, s, xd) ==
    IF s.status = "optimal"
    THEN Add(Add(xd, 0, RMul(s.fluxes["BIOMASS_Ec_iJO1366_core_53p95M"], v[1])),
             4, RMul(RMul(s.fluxes["EX_etoh_e"], M_etoh), v[1]))
    ELSE xd

\* Variant: the ethanol flux is used whatever the solver status.
ec_dfba_extract_any(v, s, xd) ==
    Add(xd, 4, RMul(RMul(s.fluxes["EX_etoh_e"], M_etoh), v[1]))

ec_dfba_extract(v, s, xd) ==
    IF s.status = "optimal"
    THEN Add(xd, 4, RMul(RMul(s.fluxes["EX_etoh_e"], M_etoh), v[1]))
    ELSE xd

\* Variant: the oxygen transfer term is added again in the yeast block.
community_sc_extract_transfer(v, s, xd) ==
    LET d == Add(xd, 3, OxygenTransfer(v))
    IN  IF s.status = "optimal"
        THEN Add(d, 0, RMul(s.fluxes["BIOMASS_SC5_notrace"], v[0]))
        ELSE d

\* Variant: the growth flux is added without the factor x[0].
community_sc_extract_unscaled(v, s, xd) ==
    IF s.status = "optimal"
    THEN Add(xd, 0, s.fluxes["BIOMASS_SC5_notrace"])
    ELSE xd

community_sc_extract(v, s, xd) ==
    IF s.status = "optimal"
    THEN Add(xd, 0, RMul(s.fluxes["BIOMASS_SC5_notrace"], v[0]))
    ELSE xd

\* Variant: the E. coli block assigns its growth term to slot 0.
community_ec_extract_overwrite(v, s, xd) ==
    IF s.status = "optimal"
    THEN [xd EXCEPT ![0] = RMul(s.fluxes["BIOMASS_Ec_iJO1366_core_53p95M"], v[1])]
    ELSE xd

community_ec_extract(v, s, xd) ==
    IF s.status = "optimal"
    THEN Add(xd, 1, RMul(s.fluxes["BIOMASS_Ec_iJO1366_core_53p95M"], v[1]))
    ELSE xd

Extract(f, m, v, s, xd) ==
    CASE f = "sc_dfba" -> sc_dfba_extract(v, s, xd)
      [] f = "ec_dfba" -> ec_dfba_extract(v, s, xd)
      [] f = "community_dfba" /\ m = "sc_model" -> community_sc_extract(v, s, xd)
      [] OTHER -> community_ec_extract(v, s, xd)

\* Variant: community_dfba opens the E. coli block first.
BlocksSwapped(f) ==
    CASE f = "sc_dfba" -> <<"sc_model">>
      [] f = "ec_dfba" -> <<"ec_model">>
      [] OTHER         -> <<"ec_model", "sc_model">>

\* The models a function optimizes, in program order.
Blocks(f) ==
    CASE f = "sc_dfba" -> <<"sc_model">>
      [] f = "ec_dfba" -> <<"ec_model">>
      [] OTHER         -> <<"sc_model", "ec_model">>

(***************************************************************************)
(* State                                                                   *)
(*   pc      position in the running evaluation ("idle" before the first)  *)
(*   fn, x   the function being evaluated and its argument vector          *)
(*   cur     the model whose `with` block is running                       *)
(*   xdot    the derivative vector under construction / returned           *)
(*   bounds  the exchange lower bounds of sc_model and ec_model            *)
(*   ctx     each model's stack of context history frames                  *)
(*   sol     sc_sol / ec_sol of this evaluation                            *)
(*   seen    the bounds each optimize() call of this evaluation was given  *)
(*   pre     the bounds of both models when this evaluation was called     *)
(*   first   the first evaluation after start: function, argument, result  *)
(*   oracle  the solver's answers during that first evaluation, which a    *)
(*           deterministic solver repeats when given the same bounds       *)
(*   arg     the caller's vector as it was passed to this evaluation       *)
(*   trace   the scope events of this evaluation, in order                 *)
(***************************************************************************)
NotSeen == [m \in Models |-> [called |-> FALSE, lb |-> NominalBounds[m]]]

NoAnswer == [m \in Models |->
                [known |-> FALSE, key |-> NominalBounds[m], out |-> NoSolution(m)]]

FirstCall(mode) ==
    [mode |-> mode, fn |-> "none", x |-> ZeroVector, raised |-> FALSE,
     ret |-> ZeroVector, later |-> FALSE, other |-> FALSE]

InitWith(mode) ==
    /\ pc = "idle"
    /\ fn = "none"
    /\ cur = "none"
    /\ x = ZeroVector
    /\ xdot = ZeroVector
    /\ bounds = NominalBounds
    /\ ctx = [m \in Models |-> << >>]
    /\ sol = [m \in Models |-> NoSolution(m)]
    /\ seen = NotSeen
    /\ pre = NominalBounds
    /\ first = FirstCall(mode)
    /\ oracle = NoAnswer
    /\ arg = ZeroVector
    /\ trace = << >>

\* The solver is a black box that may answer differently on every call.
Init == InitWith("off")

\* The solver is a deterministic function of the bounds: the answers of the
\* first evaluation are kept and repeated.
InitPure == InitWith("armed")

\* first, once the running evaluation has ended with this result
Finished(raised, ret) ==
    IF first.mode = "pending"
    THEN [first EXCEPT !.mode = "recorded", !.raised = raised, !.ret = ret]
    ELSE first

\* Variant: xdot = x, so that xdot and x are one array and the assignment to
\* xdot[3] writes into the argument.
LocalsAliased(v) ==
    [x |-> [v EXCEPT ![3] = OxygenTransfer(v)],
     xdot |-> [v EXCEPT ![3] = OxygenTransfer(v)]]

\* The arrays x and xdot after `xdot = 0*x ; xdot[3] = ...`: 0*x is a new
\* array, so the argument keeps its values.
Locals(v) == [x |-> v, xdot |-> InitialDerivative(v)]

\* The ODE driver calls f(t, v).  xdot = 0*x ; xdot[3] = kLa_o2 * (10.0 - x[3])
Call(f, v) ==
    /\ pc = "idle"
    /\ fn' = f
    /\ arg' = v
    /\ x' = Locals(v).x
    /\ xdot' = Locals(v).xdot
    /\ trace' = << >>
    /\ cur' = Blocks(f)[1]
    /\ sol' = [m \in Models |-> NoSolution(m)]
    /\ seen' = NotSeen
    /\ first' = CASE first.mode = "armed" ->
                        [first EXCEPT !.mode = "pending", !.fn = f, !.x = v]
                  [] first.mode = "recorded" ->
                        [first EXCEPT !.later = TRUE,
                                      !.other = @ \/ f /= first.fn \/ v /= first.x]
                  [] OTHER -> first
    /\ pre' = bounds
    /\ pc' = "with"
    /\ UNCHANGED <<bounds, ctx, oracle>>

\* with model:
Enter ==
    /\ pc = "with"
    /\ ctx' = [ctx EXCEPT ![cur] = Append(@, << >>)]
    /\ trace' = Append(trace, <<"enter", cur>>)
    /\ pc' = "bounds"
    /\ UNCHANGED <<fn, cur, x, xdot, bounds, sol, seen, pre, first, oracle, arg>>

\* model.exchanges.<id>.lower_bound = ...   (all assignments of the block)
SetBounds ==
    /\ pc = "bounds"
    /\ LET as == Assignments(fn, cur, x)
           top == Len(ctx[cur])
       IN  /\ bounds' = [bounds EXCEPT ![cur] = SetAll(as, @)]
           /\ ctx' = [ctx EXCEPT ![cur][top] = Record(as, bounds[cur], @)]
    /\ pc' = "optimize"
    /\ UNCHANGED <<fn, cur, x, xdot, sol, seen, pre, first, oracle, arg, trace>>

\* sol = model.optimize()
Optimize ==
    /\ pc = "optimize"
    /\ \E a \in SolverAnswers(cur, bounds[cur]) :
        /\ (oracle[cur].known /\ oracle[cur].key = bounds[cur]) => a = oracle[cur].out
        /\ sol' = [sol EXCEPT ![cur] = IF a.status = "raised" THEN @ ELSE a]
        /\ pc' = IF a.status = "raised" THEN "unwind" ELSE "extract"
        /\ oracle' = IF first.mode = "pending"
                     THEN [oracle EXCEPT ![cur] =
                              [known |-> TRUE, key |-> bounds[cur], out |-> a]]
                     ELSE oracle
    /\ seen' = [seen EXCEPT ![cur] = [called |-> TRUE, lb |-> bounds[cur]]]
    /\ trace' = Append(trace, <<"optimize", cur>>)
    /\ UNCHANGED <<fn, cur, x, xdot, bounds, ctx, pre, first, arg>>

\* if sol.status == "optimal": xdot[...] += ...
ExtractFluxes ==
    /\ pc = "extract"
    /\ xdot' = Extract(fn, cur, x, sol[cur], xdot)
    /\ pc' = "exit"
    /\ UNCHANGED <<fn, cur, x, bounds, ctx, sol, seen, pre, first, oracle, arg, trace>>

\* Leaving the `with` block: normally (on to the next block or to the return
\* statement) or with the exception of optimize() passing through.
Exit ==
    /\ pc \in {"exit", "unwind"}
    /\ LET top == Len(ctx[cur])
       IN  /\ bounds' = [bounds EXCEPT
                            ![cur] = ContextExit(ctx[cur][top], @, pc = "unwind")]
           /\ ctx' = [ctx EXCEPT ![cur] = SubSeq(@, 1, top - 1)]
    /\ IF pc = "unwind"
       THEN /\ pc' = "raised"
            /\ first' = Finished(TRUE, ZeroVector)
            /\ cur' = cur
       ELSE IF cur /= Blocks(fn)[Len(Blocks(fn))]
       THEN /\ pc' = "with"
            /\ cur' = Blocks(fn)[2]
            /\ first' = first
       ELSE /\ pc' = "return"
            /\ cur' = cur
            /\ first' = first
    /\ trace' = Append(trace, <<"exit", cur>>)
    /\ UNCHANGED <<fn, x, xdot, sol, seen, pre, oracle, arg>>

\* return xdot
Return ==
    /\ pc = "return"
    /\ pc' = "returned"
    /\ first' = Finished(FALSE, xdot)
    /\ UNCHANGED <<fn, cur, x, xdot, bounds, ctx, sol, seen, pre, oracle, arg, trace>>

\* The ODE driver takes the result (or the exception) of the evaluation; the
\* function's locals are gone and only the models remain.
Resume ==
    /\ pc \in {"returned", "raised"}
    /\ pc' = "idle"
    /\ fn' = "none"
    /\ cur' = "none"
    /\ x' = ZeroVector
    /\ xdot' = ZeroVector
    /\ sol' = [m \in Models |-> NoSolution(m)]
    /\ seen' = NotSeen
    /\ arg' = ZeroVector
    /\ trace' = << >>
    /\ UNCHANGED <<bounds, ctx, pre, first, oracle>>

Step == Enter \/ SetBounds \/ Optimize \/ ExtractFluxes \/ Exit \/ Return \/ Resume

Next ==
    \/ \E f \in Functions, v \in StateVectors : Call(f, v)
    \/ Step

Spec == Init /\ [][Next]_vars

\* The same program driven over a few argument vectors by a deterministic solver.
NextPure ==
    \/ \E f \in Functions, v \in PureVectors : Call(f, v)
    \/ Step

SpecPure == InitPure /\ [][NextPure]_vars

(***************************************************************************)
(* Properties                                                              *)
(***************************************************************************)
Transfer == RMul(R(10), RSub(R(10), x[3]))

TransferOnly == [ZeroVector EXCEPT ![3] = Transfer]

Optimal(m) == sol[m].status = "optimal"
Infeasible(m) == sol[m].status = "infeasible"

\* C1  Bound isolation: when an evaluation of sc_dfba, ec_dfba or
\* community_dfba has returned (whatever the solver statuses), the exchange
\* bounds of both models are the ones they had when it was called, and hence
\* the ones they had before the first evaluation.
C1_BoundIsolation ==
    pc = "returned" => (bounds = pre /\ bounds = NominalBounds)

C1_Witness ==
    /\ pc = "returned"
    /\ fn = "sc_dfba"
    /\ Infeasible("sc_model")
    /\ seen["sc_model"].called
    /\ seen["sc_model"].lb /= pre["sc_model"]

\* C2  Guaranteed release: when optimize() raises inside a `with` block, after
\* the kinetic bounds were written, the evaluation ends with the bounds of
\* both models as they were at the call and with no context frame left open.
C2_GuaranteedRelease ==
    pc = "raised" => (bounds = pre /\ \A m \in Models : ctx[m] = << >>)

C2_Witness ==
    /\ pc = "raised"
    /\ fn = "ec_dfba"
    /\ seen["ec_model"].called
    /\ seen["ec_model"].lb /= pre["ec_model"]

\* C3  Infeasible is not an error: an infeasible optimize never ends the
\* evaluation with an exception, and the infeasible organism adds nothing:
\* sc_dfba and ec_dfba return only the oxygen transfer term, community_dfba
\* returns the transfer term and the other organism's growth term.
C3_InfeasibleIsZero ==
    /\ pc \in {"unwind", "raised"} => ~Infeasible(cur)
    /\ (pc = "returned" /\ fn = "sc_dfba" /\ Infeasible("sc_model"))
            => xdot = TransferOnly
    /\ (pc = "returned" /\ fn = "ec_dfba" /\ Infeasible("ec_model"))
            => xdot = TransferOnly
    /\ (pc = "returned" /\ fn = "community_dfba" /\ Infeasible("sc_model"))
            => xdot = [TransferOnly EXCEPT ![1] =
                        IF Optimal("ec_model")
                        THEN RMul(sol["ec_model"].fluxes[BiomassId("ec_model")], x[1])
                        ELSE Zero]
    /\ (pc = "returned" /\ fn = "community_dfba" /\ Infeasible("ec_model"))
            => xdot = [TransferOnly EXCEPT ![0] =
                        IF Optimal("sc_model")
                        THEN RMul(sol["sc_model"].fluxes[BiomassId("sc_model")], x[0])
                        ELSE Zero]

C3_Witness ==
    /\ pc = "returned"
    /\ fn = "community_dfba"
    /\ Infeasible("sc_model")
    /\ Optimal("ec_model")
    /\ xdot[1] /= Zero
    /\ xdot[3] /= Zero

\* C4  Purity across call history (deterministic solver): whenever an
\* evaluation ends that has the function and the argument vector of the very
\* first evaluation, it ends the same way: it raises iff the first one raised,
\* and otherwise returns the same derivative vector, whatever was evaluated in
\* between.
C4_Purity ==
    (/\ pc \in {"returned", "raised"}
     /\ first.mode = "recorded"
     /\ fn = first.fn
     /\ x = first.x)
        => /\ (pc = "raised") = first.raised
           /\ pc = "returned" => xdot = first.ret

C4_Witness ==
    /\ pc = "returned"
    /\ first.mode = "recorded"
    /\ first.later
    /\ first.other
    /\ fn = first.fn
    /\ fn = "sc_dfba"
    /\ x = first.x
    /\ Optimal("sc_model")
    /\ xdot[0] /= Zero

\* C5  Commutativity of the Community Step: the vector community_dfba returns
\* is the one obtained by applying the E. coli block's extraction first and
\* the yeast block's second to the same solver results, and each optimize()
\* is given the bounds its model had at the call, so neither block's solver
\* input depends on the other block having run before it.
C5_Commutativity ==
    (pc = "returned" /\ fn = "community_dfba")
        => /\ xdot = community_sc_extract(x, sol["sc_model"],
                        community_ec_extract(x, sol["ec_model"],
                            InitialDerivative(x)))
           /\ \A m \in Models : seen[m].called /\ seen[m].lb = pre[m]

C5_Witness ==
    /\ pc = "returned"
    /\ fn = "community_dfba"
    /\ Optimal("sc_model")
    /\ Optimal("ec_model")
    /\ xdot[0] /= Zero
    /\ xdot[1] /= Zero
    /\ xdot[0] /= xdot[1]

\* What an organism's exchange flux r contributes: flux * molar mass * biomass
Contribution(m, r, mass, biomass) ==
    RMul(RMul(sol[m].fluxes[r], mass), biomass)

\* C6  Metabolite aggregation in the Community Step: when community_dfba
\* returns with both optimizations optimal, the glucose, oxygen and ethanol
\* slots are the sums of the yeast and the E. coli contributions (exchange
\* flux * molar mass * biomass), plus the oxygen transfer term in slot 3.
C6_MetaboliteAggregation ==
    (pc = "returned" /\ fn = "community_dfba"
        /\ Optimal("sc_model") /\ Optimal("ec_model"))
        => /\ xdot[2] = RAdd(Contribution("sc_model", "EX_glc__D_e", Rat(18, 100), x[0]),
                             Contribution("ec_model", "EX_glc__D_e", Rat(18, 100), x[1]))
           /\ xdot[3] = RAdd(Transfer,
                        RAdd(Contribution("sc_model", "EX_o2_e", R(32), x[0]),
                             Contribution("ec_model", "EX_o2_e", R(32), x[1])))
           /\ xdot[4] = RAdd(Contribution("sc_model", "EX_etoh_e", Rat(46, 1000), x[0]),
                             Contribution("ec_model", "EX_etoh_e", Rat(46, 1000), x[1]))

\* The Michaelis-Menten bound -V_max * c / (K_m + c) for c > 0, else 0
Kinetic(V_max, K_m, c) ==
    IF c[1] > 0 THEN RDiv(RMul(RNeg(V_max), c), RAdd(K_m, c)) ELSE Zero

\* C7  The Community Step runs the full Single-Organism Step per organism:
\* every optimize() of a community_dfba evaluation is given the kinetic lower
\* bounds computed from this evaluation's x (glucose and oxygen for yeast,
\* ethanol for E. coli), never the model's nominal bounds.
C7_CommunityKineticBounds ==
    /\ (fn = "community_dfba" /\ seen["sc_model"].called)
        => /\ seen["sc_model"].lb["EX_glc__D_e"] = Kinetic(R(10), Rat(1, 100), x[2])
           /\ seen["sc_model"].lb["EX_o2_e"] = Kinetic(R(20), Rat(1, 10), x[3])
           /\ seen["sc_model"].lb /= NominalBounds["sc_model"]
    /\ (fn = "community_dfba" /\ seen["ec_model"].called)
        => /\ seen["ec_model"].lb["EX_etoh_e"] = Kinetic(R(10), Rat(1, 10), x[4])
           /\ seen["ec_model"].lb /= NominalBounds["ec_model"]

\* The part of the returned oxygen derivative that comes from an exchange flux
OxygenFromFluxes ==
    IF fn = "sc_dfba" /\ Optimal("sc_model")
    THEN Contribution("sc_model", "EX_o2_e", R(32), x[0])
    ELSE Zero

\* C8  Oxygen mass transfer is counted exactly once: in every evaluation that
\* returns, the oxygen derivative less the part that comes from an exchange
\* flux is kLa_o2 * (10.0 - x[3]), once (also in community_dfba), and so is 0
\* when x[3] is the saturation value 10.
C8_TransferOnce ==
    pc = "returned"
        => /\ RSub(xdot[3], OxygenFromFluxes) = RMul(R(10), RSub(R(10), x[3]))
           /\ x[3] = R(10) => RSub(xdot[3], OxygenFromFluxes) = Zero

C8_Witness ==
    /\ pc = "returned"
    /\ fn = "community_dfba"
    /\ Optimal("sc_model")
    /\ Optimal("ec_model")
    /\ x[3] = R(5)
    /\ xdot[3] = R(50)

\* Values of V_max and K_m other than the notebook's
OtherParameters == {R(1), R(7), R(20), Rat(1, 100), Rat(3, 10)}

\* C9  Clamp at absent substrate: when the kinetic bounds have been written
\* (glucose and oxygen in sc_dfba, ethanol in ec_dfba), every one whose
\* substrate concentration is <= 0 is exactly 0; the mapper gives 0 for such
\* a concentration whatever V_max and K_m are.
C9_ClampAtAbsentSubstrate ==
    /\ (pc = "optimize" /\ fn = "sc_dfba")
        => /\ RLeq(x[2], Zero) => bounds["sc_model"]["EX_glc__D_e"] = Zero
           /\ RLeq(x[3], Zero) => bounds["sc_model"]["EX_o2_e"] = Zero
    /\ (pc = "optimize" /\ fn = "ec_dfba")
        => /\ RLeq(x[4], Zero) => bounds["ec_model"]["EX_etoh_e"] = Zero
    /\ (pc = "optimize" /\ fn /= "community_dfba")
        => \A V \in OtherParameters, K \in OtherParameters, i \in 2 .. 4 :
                RLeq(x[i], Zero) => MichaelisMenten(V, K, x[i]) = Zero

C9_Witness ==
    /\ pc = "optimize"
    /\ fn = "sc_dfba"
    /\ RLess(x[2], Zero)
    /\ x[3] = Zero
    /\ bounds["sc_model"]["EX_glc__D_e"] = Zero
    /\ bounds["sc_model"]["EX_o2_e"] = Zero
    /\ bounds["sc_model"] /= pre["sc_model"]

\* C10  Derivative extraction on Optimal, for both organisms: when sc_dfba
\* (ec_dfba) returns after an optimal optimize(), slot 0 (slot 1) is growth
\* flux * biomass, the glucose slot is glucose flux * 0.18 * biomass, the oxygen
\* slot is the transfer term plus oxygen flux * 32 * biomass, and the ethanol
\* slot is ethanol flux * 0.046 * biomass.
C10_ExtractionOnOptimal ==
    /\ (pc = "returned" /\ fn = "sc_dfba" /\ Optimal("sc_model"))
        => /\ xdot[0] = RMul(sol["sc_model"].fluxes["BIOMASS_SC5_notrace"], x[0])
           /\ xdot[2] = Contribution("sc_model", "EX_glc__D_e", Rat(18, 100), x[0])
           /\ xdot[3] = RAdd(Transfer, Contribution("sc_model", "EX_o2_e", R(32), x[0]))
           /\ xdot[4] = Contribution("sc_model", "EX_etoh_e", Rat(46, 1000), x[0])
    /\ (pc = "returned" /\ fn = "ec_dfba" /\ Optimal("ec_model"))
        => /\ xdot[1] = RMul(sol["ec_model"].fluxes["BIOMASS_Ec_iJO1366_core_53p95M"], x[1])
           /\ xdot[2] = Contribution("ec_model", "EX_glc__D_e", Rat(18, 100), x[1])
           /\ xdot[3] = RAdd(Transfer, Contribution("ec_model", "EX_o2_e", R(32), x[1]))
           /\ xdot[4] = Contribution("ec_model", "EX_etoh_e", Rat(46, 1000), x[1])

\* C11  Kinetic bounds in every Single-Organism Step: when optimize() is
\* called in sc_dfba and in ec_dfba, the glucose lower bound is
\* -V_max_glc*x[2]/(K_m_glc+x[2]) and the oxygen lower bound is
\* -V_max_o2*x[3]/(K_m_o2+x[3]) for a positive concentration, for both
\* organisms, and the E. coli ethanol lower bound is
\* -V_max_eth*x[4]/(K_m_eth+x[4]) for positive x[4].
C11_YeastKineticBounds ==
    (fn = "sc_dfba" /\ seen["sc_model"].called)
        => /\ RPos(x[2]) => seen["sc_model"].lb["EX_glc__D_e"]
                                = Kinetic(R(10), Rat(1, 100), x[2])
           /\ RPos(x[3]) => seen["sc_model"].lb["EX_o2_e"]
                                = Kinetic(R(20), Rat(1, 10), x[3])

C11_EcoliEthanolBound ==
    (fn = "ec_dfba" /\ seen["ec_model"].called)
        => (RPos(x[4]) => seen["ec_model"].lb["EX_etoh_e"]
                                = Kinetic(R(10), Rat(1, 10), x[4]))

C11_EcoliGlucoseOxygenBounds ==
    (fn = "ec_dfba" /\ seen["ec_model"].called)
        => /\ RPos(x[2]) => seen["ec_model"].lb["EX_glc__D_e"]
                                = Kinetic(R(10), Rat(1, 100), x[2])
           /\ RPos(x[3]) => seen["ec_model"].lb["EX_o2_e"]
                                = Kinetic(R(20), Rat(1, 10), x[3])

C11_KineticBoundsAtOptimize ==
    /\ C11_YeastKineticBounds
    /\ C11_EcoliEthanolBound
    /\ C11_EcoliGlucoseOxygenBounds

\* The solver outcomes of the evaluation that is returning or has raised
Outcomes == {sol[m].status : m \in {n \in Models : seen[n].called}}

\* C12  Solver failure is a hard failure: an evaluation in which some
\* optimize() ended neither Optimal nor Infeasible (an unbounded problem, a
\* solver crash) does not return a derivative; the failure reaches the caller.
C12_FailurePropagates ==
    pc \in {"return", "returned"} => Outcomes \subseteq {"optimal", "infeasible"}

\* C12 as the code has it: an optimize() that raises ends the evaluation with
\* that exception, the later blocks are not run and nothing is returned; a
\* solution that comes back with any status other than "optimal" (infeasible
\* or unbounded alike) contributes nothing, and the function returns.
C12_RaisePropagatesStatusIsZero ==
    /\ pc \in {"return", "returned"}
        => \A m \in Models : seen[m].called => sol[m].status /= "none"
    /\ pc \in {"unwind", "raised"}
        => /\ seen[cur].called
           /\ sol[cur].status = "none"
           /\ \A m \in Models : (m /= cur /\ seen[m].called) => sol[m].status /= "none"
           /\ cur = "sc_model" => ~seen["ec_model"].called
    /\ (pc = "returned" /\ fn = "sc_dfba" /\ ~Optimal("sc_model"))
        => xdot = TransferOnly
    /\ (pc = "returned" /\ fn = "ec_dfba" /\ ~Optimal("ec_model"))
        => xdot = TransferOnly
    /\ (pc = "returned" /\ fn = "community_dfba")
        => /\ ~Optimal("sc_model") => xdot[0] = Zero
           /\ ~Optimal("ec_model") => xdot[1] = Zero

C12_Witness ==
    /\ pc = "returned"
    /\ fn = "sc_dfba"
    /\ sol["sc_model"].status = "unbounded"
    /\ sol["sc_model"].fluxes["BIOMASS_SC5_notrace"] /= Zero
    /\ x[0] /= Zero
    /\ xdot = TransferOnly

C12_RaisedWitness ==
    /\ pc = "raised"
    /\ fn = "community_dfba"
    /\ cur = "sc_model"
    /\ ~seen["ec_model"].called

\* C13  Biomass-slot ownership: sc_dfba returns 0 in slot 1, ec_dfba returns 0
\* in slot 0, and in community_dfba slot 0 is determined by the yeast result
\* alone and slot 1 by the E. coli result alone.
C13_BiomassSlotOwnership ==
    /\ (pc = "returned" /\ fn = "sc_dfba") => xdot[1] = Zero
    /\ (pc = "returned" /\ fn = "ec_dfba") => xdot[0] = Zero
    /\ (pc = "returned" /\ fn = "community_dfba")
        => /\ xdot[0] = IF Optimal("sc_model")
                        THEN RMul(sol["sc_model"].fluxes["BIOMASS_SC5_notrace"], x[0])
                        ELSE Zero
           /\ xdot[1] = IF Optimal("ec_model")
                        THEN RMul(sol["ec_model"].fluxes["BIOMASS_Ec_iJO1366_core_53p95M"], x[1])
                        ELSE Zero

C13_Witness ==
    /\ pc = "returned"
    /\ fn = "ec_dfba"
    /\ Optimal("ec_model")
    /\ sol["ec_model"].fluxes["BIOMASS_Ec_iJO1366_core_53p95M"] /= Zero
    /\ x[0] /= Zero
    /\ x[1] /= Zero
    /\ xdot[0] = Zero

\* Positive parameter values: those of the notebook and some others
KineticParameters == OtherParameters \cup {R(10), Rat(1, 10)}

\* Positive concentrations between the grid points of the argument vectors
ShapeConcentrations == {Rat(1, 100)} \cup {Rat(k, 2) : k \in 1 .. 10 * MaxLevel}

Magnitude(q) == IF RLess(q, Zero) THEN RNeg(q) ELSE q

\* C14  Shape of the Michaelis-Menten bound: for positive V_max and K_m and a
\* positive concentration c the bound lies strictly between -V_max and 0, its
\* magnitude at any smaller positive concentration is not larger, and its
\* distance to -V_max is below V_max*K_m/c (so it vanishes as c grows).  The
\* bounds written by sc_dfba and ec_dfba have this shape.
C14_MichaelisMentenShape ==
    /\ (pc = "optimize" /\ fn /= "community_dfba")
        => \A V \in KineticParameters, K \in KineticParameters, i \in 2 .. 4 :
            RPos(x[i]) =>
                /\ RLess(RNeg(V), MichaelisMenten(V, K, x[i]))
                /\ RLess(MichaelisMenten(V, K, x[i]), Zero)
                /\ RLess(RMul(RAdd(V, MichaelisMenten(V, K, x[i])), x[i]), RMul(V, K))
                /\ \A c1 \in ShapeConcentrations :
                       RLeq(c1, x[i])
                           => RLeq(Magnitude(MichaelisMenten(V, K, c1)),
                                   Magnitude(MichaelisMenten(V, K, x[i])))
    /\ (pc = "optimize" /\ fn = "sc_dfba")
        => /\ RPos(x[2]) => /\ RLess(R(-10), bounds["sc_model"]["EX_glc__D_e"])
                            /\ RLess(bounds["sc_model"]["EX_glc__D_e"], Zero)
           /\ RPos(x[3]) => /\ RLess(R(-20), bounds["sc_model"]["EX_o2_e"])
                            /\ RLess(bounds["sc_model"]["EX_o2_e"], Zero)
    /\ (pc = "optimize" /\ fn = "ec_dfba")
        => (RPos(x[4]) => /\ RLess(R(-10), bounds["ec_model"]["EX_etoh_e"])
                          /\ RLess(bounds["ec_model"]["EX_etoh_e"], Zero))

C14_Witness ==
    /\ pc = "optimize"
    /\ fn = "sc_dfba"
    /\ x[2] = R(10)
    /\ x[3] = R(5)
    /\ bounds["sc_model"]["EX_glc__D_e"] = Rat(-10000, 1001)
    /\ bounds["sc_model"]["EX_o2_e"] = Rat(-1000, 51)

\* C15  Fluxes are read only from a valid solution: the extraction step uses
\* the solution that this evaluation's optimize() of the same model returned
\* (before that call the model has no solution in this evaluation), and unless
\* that solution is optimal the derivative does not depend on its flux values.
C15_FluxesReadOnlyWhenOptimal ==
    /\ pc \in {"with", "bounds", "optimize"}
        => (~seen[cur].called /\ sol[cur] = NoSolution(cur))
    /\ pc = "extract"
        => /\ seen[cur].called
           /\ sol[cur].status /= "none"
           /\ ~Optimal(cur)
                => \A f \in FluxChoices(cur) :
                       Extract(fn, cur, x, [sol[cur] EXCEPT !.fluxes = f], xdot)
                           = Extract(fn, cur, x, sol[cur], xdot)

C15_Witness ==
    /\ pc = "extract"
    /\ fn = "ec_dfba"
    /\ Infeasible("ec_model")
    /\ sol["ec_model"].fluxes["EX_etoh_e"] /= Zero
    /\ x[1] /= Zero

\* The scope events of a complete community_dfba evaluation
CommunityTrace ==
    << <<"enter", "sc_model">>, <<"optimize", "sc_model">>, <<"exit", "sc_model">>,
       <<"enter", "ec_model">>, <<"optimize", "ec_model">>, <<"exit", "ec_model">> >>

\* C16  Scope ordering in community_dfba: every evaluation that returns has
\* entered, optimized and exited each model exactly once, the yeast model
\* first and its scope closed before the E. coli scope is entered; each
\* optimize() runs inside its own model's scope with the other scope closed;
\* no scope is open when the function returns or raises.
C16_ScopeOrdering ==
    fn = "community_dfba"
        => /\ Len(trace) <= Len(CommunityTrace)
           /\ trace = SubSeq(CommunityTrace, 1, Len(trace))
           /\ pc \in {"return", "returned"}
                => /\ trace = CommunityTrace
                   /\ \A m \in Models : ctx[m] = << >>
           /\ pc = "raised"
                => /\ Len(trace) \in {3, 6}
                   /\ \A m \in Models : ctx[m] = << >>
           /\ pc \in {"optimize", "extract"}
                => /\ Len(ctx[cur]) = 1
                   /\ \A m \in Models \ {cur} : ctx[m] = << >>

C16_Witness ==
    /\ pc = "returned"
    /\ fn = "community_dfba"
    /\ trace = CommunityTrace
    /\ Optimal("sc_model")
    /\ Infeasible("ec_model")

\* The slot of x that holds an organism's biomass
BiomassSlot(m) == IF m = "sc_model" THEN 0 ELSE 1

\* Step lengths of a driver that moves along the returned derivative
StepLengths == {Rat(1, 100), Rat(1, 2), R(3)}

C18_InputNotModified ==
    /\ pc /= "idle" => (x = arg /\ DOMAIN xdot = DOMAIN arg)
    /\ (pc = "with" /\ trace = << >>) => xdot = TransferOnly
    /\ (pc = "returned" /\ fn = "sc_dfba") => xdot[1] = Zero
    /\ (pc = "returned" /\ fn = "ec_dfba")
        => (xdot[0] = Zero /\ xdot[1] = Zero /\ xdot[2] = Zero)
    /\ (pc = "returned" /\ fn = "community_dfba")
        => (xdot[2] = Zero /\ xdot[4] = Zero)

C18_Witness ==
    /\ pc = "returned"
    /\ fn = "sc_dfba"
    /\ Optimal("sc_model")
    /\ x[0] /= Zero
    /\ x[1] /= Zero
    /\ x[3] /= R(10)
    /\ xdot[0] /= Zero
    /\ xdot[1] = Zero
    /\ xdot[3] /= Zero
    /\ x = arg

====
